---------------------------- MODULE Spec2Model ----------------------------
(***************************************************************************)
(* Role-filtered retrieval engine of the FinSolve RAG assistant:           *)
(*   config.py                    the role/department permission table     *)
(*   app/services/auth_service.py check_permission and friends             *)
(*   app/services/document_processor.py  DocumentProcessor (files to chunks)*)
(*   app/services/vector_store.py VectorStoreManager (the ChromaDB index)  *)
(*   app/services/rag_engine.py   RAGEngine (query orchestration)          *)
(*                                                                         *)
(* The ChromaDB collection is modelled as the function from entry ids to   *)
(* entries: add_documents names the entries doc_0, doc_1, ... and the id   *)
(* doc_i is the number i.  collection.add keeps an entry whose id is       *)
(* already present and inserts only the ids that are new (the behaviour of *)
(* the chromadb releases that have PersistentClient).                      *)
(***************************************************************************)
EXTENDS Integers, Sequences, FiniteSets, TLC

VARIABLES
    collExists,    \* the collection config.COLLECTION_NAME exists in the client
    entries,       \* its entries, doc_0 first
    vector_store,  \* VectorStoreManager.vector_store: "None" or "Chroma"
    last,          \* the call on the manager / engine whose answer is being
                   \* handed to the caller, and what the call did
    call,          \* the call of an access-policy function being answered
    rebuild,       \* an initialize_vector_store running on a background worker
    processed,     \* the call of a DocumentProcessor function being answered,
                   \* and the folders it reads
    lazy           \* the requests that found the handle unset, each at its
                   \* place in _initialize_vector_store, and the disk they read

vars == <<collExists, entries, vector_store, last, call, rebuild, processed, lazy>>

(***************************************************************************)
(* Bounds of the model.                                                    *)
(***************************************************************************)
\* the largest number of chunks the document processor yields in one run
MaxChunks == 2

(***************************************************************************)
(* config.py                                                               *)
(***************************************************************************)
TOP_K_RESULTS == 5

\* ROLES[r]["permissions"], each row in the order the source writes it
\* (dict iteration order is insertion order).
ROLES ==
    [ finance     |-> << <<"finance", "full">>, <<"general", "read">>,
                         <<"marketing", "read">>, <<"hr", "read">>,
                         <<"engineering", "none">> >>,
      marketing   |-> << <<"marketing", "full">>, <<"general", "read">>,
                         <<"finance", "read">>, <<"hr", "none">>,
                         <<"engineering", "none">> >>,
      hr          |-> << <<"hr", "full">>, <<"general", "read">>,
                         <<"finance", "read">>, <<"marketing", "none">>,
                         <<"engineering", "none">> >>,
      engineering |-> << <<"engineering", "full">>, <<"general", "read">>,
                         <<"finance", "none">>, <<"marketing", "none">>,
                         <<"hr", "none">> >>,
      c_level     |-> << <<"finance", "full">>, <<"marketing", "full">>,
                         <<"hr", "full">>, <<"engineering", "full">>,
                         <<"general", "full">> >>,
      employee    |-> << <<"general", "read">>, <<"finance", "none">>,
                         <<"marketing", "none">>, <<"hr", "none">>,
                         <<"engineering", "none">> >> ]

\* DEPARTMENT_FOLDERS.keys(), in source order
DEPARTMENT_FOLDERS == << "finance", "marketing", "hr", "engineering", "general" >>

SeqRange(s) == { s[i] : i \in 1..Len(s) }

\* the element of a one-element set
Only(S) == CHOOSE x \in S : TRUE

DEPARTMENTS == SeqRange(DEPARTMENT_FOLDERS)

\* `department in role_permissions`
RowHas(row, department) == \E i \in 1..Len(row) : row[i][1] = department

\* `role_permissions[department]`: a KeyError when the row has no such key
RowGet(row, department) ==
    IF RowHas(row, department)
    THEN row[CHOOSE i \in 1..Len(row) : row[i][1] = department][2]
    ELSE "KeyError"

\* The permission level the table gives a role on a department; a role or a
\* department the table does not name has "none".
Permission(user_role, department) ==
    IF user_role \notin DOMAIN ROLES THEN "none"
    ELSE IF ~RowHas(ROLES[user_role], department) THEN "none"
    ELSE RowGet(ROLES[user_role], department)

\* the loop with `if permission == "full"`: read access is not counted
RECURSIVE AccessibleLoopFullOnly(_, _)
AccessibleLoopFullOnly(row, i) ==
    IF i > Len(row) THEN << >>
    ELSE (IF row[i][2] = "full" THEN << row[i][1] >> ELSE << >>)
         \o AccessibleLoopFullOnly(row, i + 1)

\* The loop of get_accessible_departments: the departments of the row, in
\* row order, whose permission is read or full.
RECURSIVE AccessibleLoop(_, _)
AccessibleLoop(row, i) ==
    IF i > Len(row) THEN << >>
    ELSE (IF row[i][2] \in {"read", "full"} THEN << row[i][1] >> ELSE << >>)
         \o AccessibleLoop(row, i + 1)

\* config.get_accessible_departments
ConfigGetAccessibleDepartments(user_role) ==
    IF user_role \notin DOMAIN ROLES THEN << >>
    ELSE AccessibleLoop(ROLES[user_role], 1)

(***************************************************************************)
(* app/services/auth_service.py                                            *)
(***************************************************************************)
\* check_permission ending in `return True`: a level it does not know is granted
CheckPermissionLevelFailOpen(user_role, department, permission_level) ==
    IF user_role \notin DOMAIN ROLES THEN "False"
    ELSE IF ~RowHas(ROLES[user_role], department) THEN "False"
    ELSE LET user_permission == RowGet(ROLES[user_role], department)
         IN  IF permission_level = "read"
             THEN (IF user_permission \in {"read", "full"} THEN "True" ELSE "False")
             ELSE IF permission_level = "full"
             THEN (IF user_permission = "full" THEN "True" ELSE "False")
             ELSE "True"

\* check_permission(user_role, department, permission_level): what the call
\* does, "True" or "False" returned, or "KeyError" raised
CheckPermissionLevel(user_role, department, permission_level) ==
    IF user_role \notin DOMAIN ROLES THEN "False"
    ELSE IF ~RowHas(ROLES[user_role], department) THEN "False"
    ELSE LET user_permission == RowGet(ROLES[user_role], department)
         IN  IF user_permission = "KeyError" THEN "KeyError"
             ELSE IF permission_level = "read"
             THEN (IF user_permission \in {"read", "full"} THEN "True" ELSE "False")
             ELSE IF permission_level = "full"
             THEN (IF user_permission = "full" THEN "True" ELSE "False")
             ELSE "False"

\* the guard asking for the level "full" in place of the default "read"
CheckPermissionFullOnly(user_role, department) ==
    CheckPermissionLevel(user_role, department, "full") = "True"

\* `if not auth_service.check_permission(user_role, department)`: the level
\* defaults to "read"
CheckPermission(user_role, department) ==
    CheckPermissionLevel(user_role, department, "read") = "True"

\* auth_service.get_accessible_departments
AuthGetAccessibleDepartments(user_role) ==
    IF user_role \notin DOMAIN ROLES THEN << >>
    ELSE AccessibleLoop(ROLES[user_role], 1)

(***************************************************************************)
(* Inputs.                                                                 *)
(***************************************************************************)
\* the configured roles and one role the configuration does not name
ROLE_INPUTS == DOMAIN ROLES \cup {"intern"}

\* the configured departments and one the configuration does not name
DEPT_INPUTS == DEPARTMENTS \cup {"legal"}

\* permission levels a caller may ask for
LEVEL_INPUTS == {"read", "full", "none", "write"}

NoCall == [fn |-> "none", user_role |-> "", department |-> "",
           permission_level |-> "", outcome |-> "", departments |-> << >>]


(***************************************************************************)
(* app/services/document_processor.py, as far as the index sees it: what   *)
(* is on disk is the number of chunks each department folder yields.       *)
(***************************************************************************)
\* one source file per department folder: its name, type and text
FILES ==
    [ finance     |-> [file_name |-> "financial_summary.md", file_type |-> "md",
                       page_content |-> "finance text"],
      marketing   |-> [file_name |-> "marketing_report.md", file_type |-> "md",
                       page_content |-> "marketing text"],
      hr          |-> [file_name |-> "hr_data.csv", file_type |-> "csv",
                       page_content |-> "hr text"],
      engineering |-> [file_name |-> "engineering_master_doc.md", file_type |-> "md",
                       page_content |-> "engineering text"],
      general     |-> [file_name |-> "employee_handbook.md", file_type |-> "md",
                       page_content |-> "general text"] ]

\* a chunk tagged with the first department whatever folder it was read from
ChunkMistagged(department, i) ==
    [ page_content |-> [text |-> FILES[department].page_content, part |-> i],
      metadata     |-> [ department |-> DEPARTMENT_FOLDERS[1],
                         file_name  |-> FILES[department].file_name,
                         file_type  |-> FILES[department].file_type ] ]

\* the i-th chunk the text splitter cuts from the department's file:
\* Document(page_content, metadata).  Its text is the i-th part of the file's
\* text; the metadata is that of the file and says nothing about i.
Chunk(department, i) ==
    [ page_content |-> [text |-> FILES[department].page_content, part |-> i],
      metadata     |-> [ department |-> department,
                         file_name  |-> FILES[department].file_name,
                         file_type  |-> FILES[department].file_type ] ]

RECURSIVE SumOver(_, _)
SumOver(f, S) ==
    IF S = {} THEN 0
    ELSE LET x == CHOOSE y \in S : TRUE IN f[x] + SumOver(f, S \ {x})

\* what may be on disk: per department, the number of chunks its folder yields
DiskInputs ==
    { d \in [DEPARTMENTS -> 0..MaxChunks] : SumOver(d, DEPARTMENTS) <= MaxChunks }

\* process_department_data: every chunk carries the department it was read for
ProcessDepartmentData(disk, department) ==
    [ i \in 1..disk[department] |-> Chunk(department, i) ]

\* process_all_departments: one list per key of DEPARTMENT_FOLDERS
ProcessAllDepartments(disk) ==
    [ d \in DEPARTMENTS |-> ProcessDepartmentData(disk, d) ]

(***************************************************************************)
(* The same functions file by file.  A folder is [exists, files], files in *)
(* the order os.listdir gives them; a file is [file_name, ext, isfile,     *)
(* load, parts]: load is whether open() and the parser of its type succeed *)
(* on it, parts the number of chunks the splitter cuts its text into (0    *)
(* for a text that is empty or blank).  A text is [text, parts]; a call    *)
(* result is [raised, ...], raised meaning an exception left the function. *)
(***************************************************************************)
SUPPORTED_EXTENSIONS == {".md", ".txt", ".csv"}

EMPTY_TEXT == [text |-> "", parts |-> 0]

TextOf(file) == [text |-> file.file_name, parts |-> file.parts]

\* load_markdown_file with no try/except around open() and markdown()
LoadMarkdownFileNoExcept(file) ==
    IF file.load = "ok" THEN [raised |-> FALSE, content |-> TextOf(file)]
    ELSE [raised |-> TRUE, content |-> EMPTY_TEXT]

\* load_markdown_file: `except Exception: return ""`
LoadMarkdownFile(file) ==
    IF file.load = "ok" THEN [raised |-> FALSE, content |-> TextOf(file)]
    ELSE [raised |-> FALSE, content |-> EMPTY_TEXT]

\* load_csv_file: `except Exception: return ""`
LoadCsvFile(file) ==
    IF file.load = "ok" THEN [raised |-> FALSE, content |-> TextOf(file)]
    ELSE [raised |-> FALSE, content |-> EMPTY_TEXT]

\* load_text_file: `except Exception: return ""`
LoadTextFile(file) ==
    IF file.load = "ok" THEN [raised |-> FALSE, content |-> TextOf(file)]
    ELSE [raised |-> FALSE, content |-> EMPTY_TEXT]

\* load_document: by extension, "" for any other
LoadDocument(file) ==
    IF file.ext = ".md" THEN LoadMarkdownFile(file)
    ELSE IF file.ext = ".csv" THEN LoadCsvFile(file)
    ELSE IF file.ext = ".txt" THEN LoadTextFile(file)
    ELSE [raised |-> FALSE, content |-> EMPTY_TEXT]

\* chunk_document: [] for a blank text, else the chunks of the splitter in
\* the order of the text, each with a copy of the document's metadata
ChunkDocument(content, metadata) ==
    IF content.parts = 0 THEN << >>
    ELSE [ i \in 1..content.parts |->
             [ page_content |-> [text |-> content.text, part |-> i],
               metadata     |-> metadata ] ]

\* the metadata process_department_data gives to the chunks of a file
FileMetadata(department, file) ==
    [ department |-> department,
      file_name  |-> file.file_name,
      file_path  |-> << department, file.file_name >>,
      file_type  |-> file.ext,
      source     |-> << department, file.file_name >> ]

\* the body of `for file_name in os.listdir(department_folder)` for one file:
\* the chunks it adds to documents
ProcessFile(department, file) ==
    IF ~file.isfile \/ file.ext \notin SUPPORTED_EXTENSIONS
    THEN [raised |-> FALSE, documents |-> << >>]
    ELSE Only({ IF l.raised THEN [raised |-> TRUE, documents |-> << >>]
                ELSE IF l.content = EMPTY_TEXT
                THEN [raised |-> FALSE, documents |-> << >>]
                ELSE [raised |-> FALSE,
                      documents |-> ChunkDocument(l.content,
                                                  FileMetadata(department, file))] :
                  l \in {LoadDocument(file)} })

\* the loop of process_department_data from the i-th file on
RECURSIVE ProcessFilesFrom(_, _, _)
ProcessFilesFrom(files, department, i) ==
    IF i > Len(files) THEN [raised |-> FALSE, documents |-> << >>]
    ELSE Only({ IF p.raised \/ rest.raised THEN [raised |-> TRUE, documents |-> << >>]
                ELSE [raised |-> FALSE, documents |-> p.documents \o rest.documents] :
                  p \in {ProcessFile(department, files[i])},
                  rest \in {ProcessFilesFrom(files, department, i + 1)} })

\* process_department_data(department) over the folders on disk
ProcessDepartmentFiles(folders, department) ==
    IF department \notin DEPARTMENTS \/ ~folders[department].exists
    THEN [raised |-> FALSE, documents |-> << >>]
    ELSE ProcessFilesFrom(folders[department].files, department, 1)

\* process_all_departments over the folders on disk: an exception of one
\* department leaves the whole call
ProcessAllFiles(folders) ==
    IF \E d \in DEPARTMENTS : ProcessDepartmentFiles(folders, d).raised
    THEN [raised |-> TRUE, documents |-> [ d \in DEPARTMENTS |-> << >> ]]
    ELSE [raised |-> FALSE,
          documents |-> [ d \in DEPARTMENTS |->
                            ProcessDepartmentFiles(folders, d).documents ]]

\* initialize_vector_store, `for department, docs in all_documents.items():
\* combined_documents.extend(docs)`
RECURSIVE CombineFrom(_, _)
CombineFrom(all_documents, i) ==
    IF i > Len(DEPARTMENT_FOLDERS) THEN << >>
    ELSE all_documents[DEPARTMENT_FOLDERS[i]] \o CombineFrom(all_documents, i + 1)

CombinedDocuments(disk) == CombineFrom(ProcessAllDepartments(disk), 1)

(***************************************************************************)
(* app/services/vector_store.py                                            *)
(*                                                                         *)
(* A store is [exists, entries, vs]: whether the collection exists, its    *)
(* entries (a function from the number i of the id doc_i to the chunk      *)
(* stored under it) and the manager's vector_store handle.                 *)
(***************************************************************************)
NoEntries == [ i \in {} |-> Chunk("general", 1) ]

Store == [exists |-> collExists, entries |-> entries, vs |-> vector_store]

\* create_collection: get_collection, and create_collection when that raises
CreateCollection(s) == [s EXCEPT !.exists = TRUE]

\* ids numbered on from the entries the collection holds: fresh ids on every add
DocIdsFresh(s, documents) ==
    [ i \in 1..Len(documents) |-> Cardinality(DOMAIN s.entries) + i - 1 ]

\* ids = [f"doc_{i}" for i in range(len(documents))]
DocIds(s, documents) == [ i \in 1..Len(documents) |-> i - 1 ]

\* collection.add(documents, metadatas, ids): an id the collection already
\* holds keeps its entry, the other ids are inserted
CollectionAdd(ents, documents, ids) ==
    [ id \in DOMAIN ents \cup SeqRange(ids) |->
        IF id \in DOMAIN ents THEN ents[id]
        ELSE documents[CHOOSE i \in 1..Len(ids) : ids[i] = id] ]

\* _get_langchain_vector_store: Chroma(client, collection_name, ...) gets or
\* creates the collection; None when the constructor raises
GetLangchainVectorStore(s, handleOut) ==
    IF handleOut = "ok" THEN [s EXCEPT !.exists = TRUE, !.vs = "Chroma"]
    ELSE [s EXCEPT !.vs = "None"]

\* add_documents: [store, ok, calls, raised]
AddDocuments(s, documents, addOut) ==
    IF documents = << >>
    THEN [store |-> s, ok |-> FALSE, calls |-> {}, raised |-> {}]
    ELSE IF addOut = "ok"
    THEN [store |-> [CreateCollection(s) EXCEPT !.entries =
                        CollectionAdd(s.entries, documents, DocIds(s, documents))],
          ok |-> TRUE, calls |-> {"create_collection", "collection.add"},
          raised |-> {}]
    ELSE [store |-> CreateCollection(s), ok |-> FALSE,
          calls |-> {"create_collection", "collection.add"},
          raised |-> {"collection.add"}]

\* initialize_vector_store, after add_documents has returned a
InitializeAfterAdd(a, handleOut) ==
    IF a.ok
    THEN [store |-> GetLangchainVectorStore(a.store, handleOut),
          ok |-> handleOut = "ok",
          calls |-> a.calls \cup {"process_all_departments",
                                  "get_langchain_vector_store"},
          raised |-> IF handleOut = "ok" THEN {} ELSE {"get_langchain_vector_store"}]
    ELSE [store |-> a.store, ok |-> FALSE,
          calls |-> a.calls \cup {"process_all_departments"},
          raised |-> a.raised]

\* initialize_vector_store: [store, ok, calls, raised]
InitializeVectorStore(s, disk, addOut, handleOut) ==
    IF CombinedDocuments(disk) = << >>
    THEN [store |-> s, ok |-> FALSE, calls |-> {"process_all_departments"},
          raised |-> {}]
    ELSE Only({ InitializeAfterAdd(a, handleOut) :
                  a \in {AddDocuments(s, CombinedDocuments(disk), addOut)} })

\* get_collection_stats: {} when get_collection raises.  present is whether
\* the dict has its three keys; for {} the other fields are what
\* stats.get(key, default) reads from it.
NoStats == [present |-> FALSE, total_documents |-> 0, departments |-> {}, file_types |-> {}]

GetCollectionStats(s) ==
    IF ~s.exists THEN NoStats
    ELSE [ present         |-> TRUE,
           total_documents |-> Cardinality(DOMAIN s.entries),
           departments     |-> { s.entries[i].metadata.department : i \in DOMAIN s.entries },
           file_types      |-> { s.entries[i].metadata.file_type : i \in DOMAIN s.entries } ]

\* reset_collection: delete_collection raises when there is no collection
ResetCollectionOf(s) ==
    IF s.exists THEN [store |-> [s EXCEPT !.exists = FALSE, !.entries = NoEntries], ok |-> TRUE]
    ELSE [store |-> s, ok |-> FALSE]

(***************************************************************************)
(* The similarity search of the index.  The embedding model is outside the *)
(* program: a query scores a chunk by the table below (higher is closer).  *)
(***************************************************************************)
QUERY_INPUTS == {"salary", "roadmap"}

Relevance(query, chunk) ==
    LET d == chunk.metadata.department IN
    IF query = "salary" THEN (IF d = "hr" THEN 3 ELSE IF d = "finance" THEN 2 ELSE 1)
    ELSE IF query = "roadmap"
         THEN (IF d = "engineering" THEN 3 ELSE IF d = "marketing" THEN 2 ELSE 1)
    ELSE 1

\* What the similarity search call may do.  The library returns its results
\* by descending score; a chunk carries no position within its document and
\* the code passes no order for results of equal score, so that order is the
\* library's: "ok" has them in the order of their ids, "ok_ties" in the
\* opposite order (a call takes this outcome only where it changes the
\* results).  "fail" is the call raising.
SIM_OUTCOMES == {"ok", "ok_ties", "fail"}

\* the entry of S the query ranks first: highest score, then the order the
\* library gives to equal scores
BestId(ents, query, S, simOut) ==
    CHOOSE i \in S : \A j \in S :
        \/ Relevance(query, ents[i]) > Relevance(query, ents[j])
        \/ /\ Relevance(query, ents[i]) = Relevance(query, ents[j])
           /\ IF simOut = "ok" THEN i <= j ELSE i >= j

RECURSIVE RankFrom(_, _, _, _, _)
RankFrom(ents, query, S, k, simOut) ==
    IF S = {} \/ k <= 0 THEN << >>
    ELSE LET b == BestId(ents, query, S, simOut) IN
         << [doc |-> ents[b], score |-> Relevance(query, ents[b])] >>
         \o RankFrom(ents, query, S \ {b}, k - 1, simOut)

\* the search without a filter, its k results filtered afterwards
SimilaritySearchPostFilter(ents, query, k, allowed, simOut) ==
    SelectSeq(RankFrom(ents, query, DOMAIN ents, k, simOut),
              LAMBDA r : r.doc.metadata.department \in allowed)

\* vector_store.similarity_search_with_relevance_scores(query, k, filter): the
\* filter selects the entries, then the k best of them are returned
SimilaritySearch(ents, query, k, allowed, simOut) ==
    RankFrom(ents, query,
             { i \in DOMAIN ents : ents[i].metadata.department \in allowed }, k,
             simOut)

\* `for doc, score in results: formatted_results.append({...})`
FormatResults(results) ==
    [ i \in 1..Len(results) |->
        [ content         |-> results[i].doc.page_content,
          metadata        |-> results[i].doc.metadata,
          relevance_score |-> results[i].score ] ]

\* no filter: the search runs over every department
SearchFilterNone(accessible_departments) == DEPARTMENTS

\* the filter kept from an earlier search by role employee
SearchFilterKeptFromEmployee(accessible_departments) ==
    SeqRange(ConfigGetAccessibleDepartments("employee"))

\* the filter of search_documents: {"department": {"$in": accessible_departments}}
SearchFilter(accessible_departments) == SeqRange(accessible_departments)

\* search_documents without `if not accessible_departments: return []`
SearchDocumentsNoEmptyCheck(s, query, user_role, top_k, simOut) ==
    LET k == IF top_k = 0 THEN TOP_K_RESULTS ELSE top_k
        accessible_departments == ConfigGetAccessibleDepartments(user_role)
    IN  IF s.vs = "None" THEN [results |-> << >>, calls |-> {}, raised |-> {}]
        ELSE IF simOut # "fail" /\ s.exists
        THEN [results |-> FormatResults(SimilaritySearch(s.entries, query, k,
                                            SearchFilter(accessible_departments),
                                            simOut)),
              calls |-> {"similarity_search"}, raised |-> {}]
        ELSE [results |-> << >>, calls |-> {"similarity_search"},
              raised |-> {"similarity_search"}]

\* search_documents(query, user_role, top_k); top_k = 0 stands for None.
\* [results, calls, raised]
SearchDocuments(s, query, user_role, top_k, simOut) ==
    LET k == IF top_k = 0 THEN TOP_K_RESULTS ELSE top_k
        accessible_departments == ConfigGetAccessibleDepartments(user_role)
    IN  IF s.vs = "None" THEN [results |-> << >>, calls |-> {}, raised |-> {}]
        ELSE IF accessible_departments = << >>
        THEN [results |-> << >>, calls |-> {}, raised |-> {}]
        ELSE IF simOut # "fail" /\ s.exists
        THEN [results |-> FormatResults(SimilaritySearch(s.entries, query, k,
                                            SearchFilter(accessible_departments),
                                            simOut)),
              calls |-> {"similarity_search"}, raised |-> {}]
        ELSE [results |-> << >>, calls |-> {"similarity_search"},
              raised |-> {"similarity_search"}]

\* get_department_documents asks for k = 1000 results, "large number to get
\* all documents".  The collections of the model are a thousand times smaller
\* than those the number was chosen for, and so is the k of the model: a
\* department folder may yield more chunks than it (MaxChunks is larger).
DEPARTMENT_DUMP_K == 1

\* the guard of get_department_documents
DepartmentDocumentsAllowed(user_role, department) ==
    CheckPermission(user_role, department)

\* get_department_documents(department, user_role): [results, calls, raised]
GetDepartmentDocuments(s, department, user_role, simOut) ==
    IF ~DepartmentDocumentsAllowed(user_role, department)
    THEN [results |-> << >>, calls |-> {}, raised |-> {}]
    ELSE IF s.vs = "None" THEN [results |-> << >>, calls |-> {}, raised |-> {}]
    ELSE IF simOut # "fail" /\ s.exists
    THEN [results |-> FormatResults(SimilaritySearch(s.entries, "", DEPARTMENT_DUMP_K,
                                                     {department}, simOut)),
          calls |-> {"similarity_search"}, raised |-> {}]
    ELSE [results |-> << >>, calls |-> {"similarity_search"},
          raised |-> {"similarity_search"}]

(***************************************************************************)
(* app/services/rag_engine.py                                              *)
(***************************************************************************)
\* get_collection_stats when the client may fail: any exception of
\* get_collection, count or get ends in `return {}`
GetCollectionStatsOrFail(s, statsOut) ==
    IF statsOut = "ok" THEN GetCollectionStats(s) ELSE NoStats

\* _initialize_vector_store: [store, calls, raised]
EnsureVectorStore(s, disk, statsOut, addOut, handleOut) ==
    IF GetCollectionStatsOrFail(s, statsOut).total_documents = 0
    THEN Only({ [store |-> r.store, calls |-> r.calls \cup {"get_collection_stats"},
                 raised |-> r.raised] :
                  r \in {InitializeVectorStore(s, disk, addOut, handleOut)} })
    ELSE IF s.vs = "None"
    THEN [store |-> GetLangchainVectorStore(s, handleOut),
          calls |-> {"get_collection_stats", "get_langchain_vector_store"},
          raised |-> IF handleOut = "ok" THEN {} ELSE {"get_langchain_vector_store"}]
    ELSE [store |-> s, calls |-> {"get_collection_stats"}, raised |-> {}]

\* `if not self.vector_store_manager.vector_store: self._initialize_vector_store()`
EnsureIfUnset(s, disk, statsOut, addOut, handleOut) ==
    IF s.vs = "None" THEN EnsureVectorStore(s, disk, statsOut, addOut, handleOut)
    ELSE [store |-> s, calls |-> {}, raised |-> {}]

NO_DOCUMENTS_MARKER == "No relevant documents found."

\* A context text is [literal, parts]: a fixed text, or the parts that
\* _format_context joins by "\n".  EMPTY_CONTEXT is the empty string.
EMPTY_CONTEXT == [literal |-> "", parts |-> << >>]

\* _format_context without its `if not search_results` branch: "\n".join([])
FormatContextNoMarker(search_results) ==
    [ literal |-> "",
      parts   |-> [ i \in 1..Len(search_results) |->
                      [ source     |-> i,
                        relevance  |-> search_results[i].relevance_score,
                        department |-> search_results[i].metadata.department,
                        file       |-> search_results[i].metadata.file_name,
                        content    |-> search_results[i].content ] ] ]

\* _format_context
FormatContext(search_results) ==
    IF search_results = << >>
    THEN [literal |-> NO_DOCUMENTS_MARKER, parts |-> << >>]
    ELSE [ literal |-> "",
           parts   |-> [ i \in 1..Len(search_results) |->
                           [ source     |-> i,
                             relevance  |-> search_results[i].relevance_score,
                             department |-> search_results[i].metadata.department,
                             file       |-> search_results[i].metadata.file_name,
                             content    |-> search_results[i].content ] ] ]

\* the sources collected from the results last to first
ExtractSourcesReversed(search_results) ==
    [ i \in 1..Len(search_results) |->
        [ department      |-> search_results[Len(search_results) + 1 - i].metadata.department,
          file_name       |-> search_results[Len(search_results) + 1 - i].metadata.file_name,
          relevance_score |-> search_results[Len(search_results) + 1 - i].relevance_score ] ]

\* `for result in search_results: sources.append({...})`
ExtractSources(search_results) ==
    [ i \in 1..Len(search_results) |->
        [ department      |-> search_results[i].metadata.department,
          file_name       |-> search_results[i].metadata.file_name,
          relevance_score |-> search_results[i].relevance_score ] ]

\* the answer of a request: [response, sources, context_used, total_sources]
Answer(response, sources, context_used) ==
    [ response |-> response, sources |-> sources, context_used |-> context_used,
      total_sources |-> Len(sources) ]

\* query whose `except` answers with the sources of the results it had
QueryAnswerKeepSources(e, f, genOut) ==
    [store |-> e.store,
     answer |-> Answer(IF genOut = "ok" THEN "llm" ELSE "apology",
                       ExtractSources(f.results),
                       IF genOut = "ok" THEN FormatContext(f.results) ELSE EMPTY_CONTEXT),
     results |-> f.results, llm_context |-> FormatContext(f.results),
     calls |-> e.calls \cup f.calls \cup {"llm"},
     raised |-> e.raised \cup f.raised \cup (IF genOut = "ok" THEN {} ELSE {"llm"})]

\* query, from the formatting of the context on: e is what the check of the
\* handle did, f what search_documents returned
QueryAnswer(e, f, genOut) ==
    IF genOut = "ok"
    THEN [store |-> e.store,
          answer |-> Answer("llm", ExtractSources(f.results), FormatContext(f.results)),
          results |-> f.results, llm_context |-> FormatContext(f.results),
          calls |-> e.calls \cup f.calls \cup {"llm"},
          raised |-> e.raised \cup f.raised]
    ELSE [store |-> e.store,
          answer |-> Answer("apology", << >>, EMPTY_CONTEXT),
          results |-> f.results, llm_context |-> FormatContext(f.results),
          calls |-> e.calls \cup f.calls \cup {"llm"},
          raised |-> e.raised \cup f.raised \cup {"llm"}]

\* query(user_query, user_role): [store, answer, results, llm_context, calls, raised]
Query(s, user_query, user_role, disk, statsOut, addOut, handleOut, simOut, genOut) ==
    Only({ Only({ QueryAnswer(e, f, genOut) :
                    f \in {SearchDocuments(e.store, user_query, user_role, 0, simOut)} }) :
             e \in {EnsureIfUnset(s, disk, statsOut, addOut, handleOut)} })

\* get_department_summary without its permission check
SummaryAllowedAlways(user_role, department) == TRUE

\* the guard of get_department_summary
SummaryAllowed(user_role, department) == CheckPermission(user_role, department)

\* get_department_summary, from `if not documents` on
SummaryAnswer(e, f, genOut) ==
    IF f.results = << >>
    THEN [store |-> e.store, answer |-> Answer("no_documents", << >>, EMPTY_CONTEXT),
          results |-> << >>, llm_context |-> EMPTY_CONTEXT,
          calls |-> e.calls \cup f.calls, raised |-> e.raised \cup f.raised]
    ELSE IF genOut = "ok"
    THEN [store |-> e.store,
          answer |-> Answer("llm", ExtractSources(f.results), FormatContext(f.results)),
          results |-> f.results, llm_context |-> FormatContext(f.results),
          calls |-> e.calls \cup f.calls \cup {"llm"},
          raised |-> e.raised \cup f.raised]
    ELSE [store |-> e.store, answer |-> Answer("apology", << >>, EMPTY_CONTEXT),
          results |-> f.results, llm_context |-> FormatContext(f.results),
          calls |-> e.calls \cup f.calls \cup {"llm"},
          raised |-> e.raised \cup f.raised \cup {"llm"}]

\* get_department_summary(department, user_role)
GetDepartmentSummary(s, department, user_role, disk, statsOut, addOut, handleOut, simOut, genOut) ==
    IF ~SummaryAllowed(user_role, department)
    THEN [store |-> s, answer |-> Answer("denied", << >>, EMPTY_CONTEXT),
          results |-> << >>, llm_context |-> EMPTY_CONTEXT, calls |-> {}, raised |-> {}]
    ELSE Only({ Only({ SummaryAnswer(e, f, genOut) :
                         f \in {GetDepartmentDocuments(e.store, department, user_role,
                                                       simOut)} }) :
                  e \in {EnsureIfUnset(s, disk, statsOut, addOut, handleOut)} })

(***************************************************************************)
(* State machine.  A call runs to completion and leaves its record in      *)
(* `last`; Return hands the answer to the caller and clears the record.    *)
(***************************************************************************)
OUTCOMES == {"ok", "fail"}

\* top_k as passed to search_documents: 0 stands for None (the default)
TOP_K_INPUTS == 0..MaxChunks

ZeroDisk == [ d \in DEPARTMENTS |-> 0 ]

NoAnswer == Answer("", << >>, EMPTY_CONTEXT)

NoStore == [exists |-> FALSE, entries |-> NoEntries, vs |-> "None"]

\* what `last` keeps of the rebuild that ran right before a rebuild
NoPrev == [op |-> "none", ok |-> FALSE, raised |-> {}, stats |-> NoStats]

\* op: the call; before: the store when it began; sim: what its similarity
\* search did; calls: the index and external calls it made; raised: those of
\* them that raised; stats: the statistics of the collection when it ended;
\* during: it ran while a background rebuild was in progress; pc: "llm" while
\* the call waits for self.llm(messages), "done" when it has its answer
NoLast ==
    [ op |-> "none", pc |-> "done", user_role |-> "", department |-> "", query |-> "", top_k |-> 0,
      disk |-> ZeroDisk, before |-> NoStore, sim |-> "ok", ok |-> FALSE,
      results |-> << >>,
      answer |-> NoAnswer, llm_context |-> EMPTY_CONTEXT, stats |-> NoStats,
      calls |-> {}, raised |-> {}, during |-> FALSE, prev |-> NoPrev ]

NoRebuild == [pc |-> "idle", disk |-> ZeroDisk, before |-> NoStore, ok |-> FALSE]

NoFolders == [ d \in DEPARTMENTS |-> [exists |-> FALSE, files |-> << >>] ]

NoProcessed ==
    [ fn |-> "none", department |-> "", folders |-> NoFolders, raised |-> FALSE,
      documents |-> << >>, all_documents |-> [ d \in DEPARTMENTS |-> << >> ] ]

\* the requests that may find the handle unset at the same time
LAZY_WORKERS == {"a", "b"}

NoLazy == [ disk |-> ZeroDisk, pc |-> [ w \in LAZY_WORKERS |-> "idle" ] ]

\* no call is being answered
Free == last.op = "none" /\ call.fn = "none"

\* no call is being answered and no rebuild runs in the background
Idle == Free /\ rebuild.pc = "idle"

SetStore(s) ==
    /\ collExists' = s.exists
    /\ entries' = s.entries
    /\ vector_store' = s.vs

\* the inputs a call reads, so that unread inputs are not enumerated
GeneralDisk == [ d \in DEPARTMENTS |-> IF d = "general" THEN MaxChunks ELSE 0 ]

\* every disk for an index read as empty; for a populated index whose
\* statistics call failed, a disk without files and one with a file
InitDisks(s, statsOut) ==
    IF s.vs = "None" /\ GetCollectionStats(s).total_documents = 0
    THEN DiskInputs
    ELSE IF s.vs = "None" /\ statsOut = "fail"
    THEN {ZeroDisk, GeneralDisk}
    ELSE {ZeroDisk}

\* the statistics call can fail in a way that matters only where the
\* collection holds entries: without them {} reads like the statistics
StatsOuts(s) ==
    IF s.vs = "None" /\ GetCollectionStats(s).total_documents # 0
    THEN OUTCOMES ELSE {"ok"}

AddOuts(disk) == IF disk = ZeroDisk THEN {"ok"} ELSE OUTCOMES

HandleOuts(s, disk, statsOut, addOut) ==
    IF s.vs = "None" /\ addOut = "ok"
       /\ (disk # ZeroDisk \/ GetCollectionStatsOrFail(s, statsOut).total_documents # 0)
    THEN OUTCOMES ELSE {"ok"}

Init ==
    /\ collExists = FALSE
    /\ entries = NoEntries
    /\ vector_store = "None"
    /\ last = NoLast
    /\ call = NoCall
    /\ rebuild = NoRebuild
    /\ processed = NoProcessed
    /\ lazy = NoLazy

\* VectorStoreManager(): a new process over the persisted index
DoNewManager ==
    /\ Idle
    /\ vector_store' = "None"
    /\ last' = [NoLast EXCEPT !.op = "new_manager", !.before = Store]
    /\ UNCHANGED <<processed, lazy, collExists, entries, call, rebuild>>

\* RAGEngine(): a new manager, then _initialize_vector_store
DoNewEngine ==
    /\ Idle
    /\ LET s0 == [Store EXCEPT !.vs = "None"] IN
       \E statsOut \in StatsOuts(s0) :
       \E disk \in InitDisks(s0, statsOut) : \E addOut \in AddOuts(disk) :
       \E handleOut \in HandleOuts(s0, disk, statsOut, addOut) :
       \E e \in {EnsureVectorStore(s0, disk, statsOut, addOut, handleOut)} :
          /\ SetStore(e.store)
          /\ last' = [NoLast EXCEPT !.op = "new_engine", !.before = Store,
                                    !.disk = disk, !.calls = e.calls,
                                    !.raised = e.raised]
    /\ UNCHANGED <<processed, lazy, call, rebuild>>

\* initialize_vector_store(), called on the manager: the rebuild of the index.
\* A caller may call it a second time with the files on disk unchanged.
DoRebuild ==
    /\ call.fn = "none" /\ rebuild.pc = "idle"
    /\ last.op \in {"none", "rebuild"}
    /\ last.prev.op = "none"
    /\ \E disk \in (IF last.op = "rebuild" THEN {last.disk} ELSE DiskInputs) :
       \E addOut \in AddOuts(disk) : \E handleOut \in OUTCOMES :
          /\ addOut = "fail" => handleOut = "ok"
          /\ \E r \in {InitializeVectorStore(Store, disk, addOut, handleOut)} :
             /\ SetStore(r.store)
             /\ last' = [NoLast EXCEPT !.op = "rebuild", !.before = Store,
                                       !.disk = disk, !.ok = r.ok,
                                       !.calls = r.calls, !.raised = r.raised,
                                       !.stats = GetCollectionStats(r.store),
                                       !.prev = [op |-> last.op, ok |-> last.ok,
                                                 raised |-> last.raised,
                                                 stats |-> last.stats]]
    /\ UNCHANGED <<processed, lazy, call, rebuild>>

\* the rebuild called after the answer of the call before it was handed over
DoRebuildOnce == last.op = "none" /\ DoRebuild

\* reset_collection()
DoResetCollection ==
    /\ Idle
    /\ \E r \in {ResetCollectionOf(Store)} :
       /\ SetStore(r.store)
       /\ last' = [NoLast EXCEPT !.op = "reset", !.before = Store, !.ok = r.ok]
    /\ UNCHANGED <<processed, lazy, call, rebuild>>

\* get_collection_stats()
DoGetCollectionStats ==
    /\ Idle
    /\ \E statsOut \in (IF collExists THEN OUTCOMES ELSE {"ok"}) :
          last' = [NoLast EXCEPT !.op = "stats", !.before = Store,
                      !.stats = GetCollectionStatsOrFail(Store, statsOut),
                      !.calls = {"get_collection_stats"},
                      !.raised = IF statsOut = "ok" THEN {}
                                 ELSE {"get_collection_stats"}]
    /\ UNCHANGED <<processed, lazy, collExists, entries, vector_store, call, rebuild>>

\* search_documents(query, user_role, top_k)
DoSearchDocuments ==
    /\ Free
    /\ \E query \in QUERY_INPUTS, user_role \in ROLE_INPUTS, top_k \in TOP_K_INPUTS,
          simOut \in SIM_OUTCOMES :
       \E f \in {SearchDocuments(Store, query, user_role, top_k, simOut)} :
          /\ simOut # "ok" => "similarity_search" \in f.calls
          /\ simOut = "ok_ties" =>
                f.results # SearchDocuments(Store, query, user_role, top_k, "ok").results
          /\ last' = [NoLast EXCEPT !.op = "search", !.before = Store,
                                    !.sim = simOut,
                                    !.query = query, !.user_role = user_role,
                                    !.top_k = top_k, !.results = f.results,
                                    !.calls = f.calls, !.raised = f.raised,
                                    !.during = rebuild.pc # "idle"]
    /\ UNCHANGED <<processed, lazy, collExists, entries, vector_store, call, rebuild>>

\* get_department_documents(department, user_role)
DoGetDepartmentDocuments ==
    /\ Free
    /\ \E department \in DEPT_INPUTS, user_role \in ROLE_INPUTS,
          simOut \in SIM_OUTCOMES :
       \E f \in {GetDepartmentDocuments(Store, department, user_role, simOut)} :
          /\ simOut # "ok" => "similarity_search" \in f.calls
          /\ simOut = "ok_ties" =>
                f.results # GetDepartmentDocuments(Store, department, user_role,
                                                   "ok").results
          /\ last' = [NoLast EXCEPT !.op = "department_documents", !.before = Store,
                                    !.sim = simOut,
                                    !.department = department, !.user_role = user_role,
                                    !.results = f.results,
                                    !.calls = f.calls, !.raised = f.raised,
                                    !.during = rebuild.pc # "idle"]
    /\ UNCHANGED <<processed, lazy, collExists, entries, vector_store, call, rebuild>>

\* query(user_query, user_role)
DoQuery ==
    /\ Idle
    /\ \E user_query \in QUERY_INPUTS, user_role \in ROLE_INPUTS :
       \E statsOut \in StatsOuts(Store) :
       \E disk \in InitDisks(Store, statsOut) : \E addOut \in AddOuts(disk) :
       \E handleOut \in HandleOuts(Store, disk, statsOut, addOut) :
       \E simOut \in SIM_OUTCOMES, genOut \in OUTCOMES :
       \E r \in {Query(Store, user_query, user_role, disk, statsOut, addOut, handleOut,
                      simOut, genOut)} :
          /\ simOut # "ok" => "similarity_search" \in r.calls
          /\ simOut = "ok_ties" =>
                r.results # Query(Store, user_query, user_role, disk, statsOut, addOut,
                                  handleOut, "ok", genOut).results
          /\ SetStore(r.store)
          /\ last' = [NoLast EXCEPT !.op = "query", !.before = Store,
                                    !.sim = simOut,
                                    !.query = user_query, !.user_role = user_role,
                                    !.disk = disk, !.results = r.results,
                                    !.answer = r.answer, !.llm_context = r.llm_context,
                                    !.calls = r.calls, !.raised = r.raised]
    /\ UNCHANGED <<processed, lazy, call, rebuild>>

\* get_department_summary(department, user_role)
DoGetDepartmentSummary ==
    /\ Idle
    /\ \E department \in DEPT_INPUTS, user_role \in ROLE_INPUTS :
       \E statsOut \in (IF SummaryAllowed(user_role, department)
                        THEN StatsOuts(Store) ELSE {"ok"}) :
       \E disk \in (IF SummaryAllowed(user_role, department)
                    THEN InitDisks(Store, statsOut) ELSE {ZeroDisk}) :
       \E addOut \in AddOuts(disk) :
       \E handleOut \in (IF SummaryAllowed(user_role, department)
                         THEN HandleOuts(Store, disk, statsOut, addOut) ELSE {"ok"}) :
       \E simOut \in SIM_OUTCOMES, genOut \in OUTCOMES :
       \E r \in {GetDepartmentSummary(Store, department, user_role, disk, statsOut, addOut,
                                     handleOut, simOut, genOut)} :
          /\ simOut # "ok" => "similarity_search" \in r.calls
          /\ simOut = "ok_ties" =>
                r.results # GetDepartmentSummary(Store, department, user_role, disk,
                                statsOut, addOut, handleOut, "ok", genOut).results
          /\ genOut = "fail" => "llm" \in r.calls
          /\ SetStore(r.store)
          /\ last' = [NoLast EXCEPT !.op = "summary", !.before = Store,
                                    !.sim = simOut,
                                    !.department = department, !.user_role = user_role,
                                    !.disk = disk, !.results = r.results,
                                    !.answer = r.answer, !.llm_context = r.llm_context,
                                    !.calls = r.calls, !.raised = r.raised]
    /\ UNCHANGED <<processed, lazy, call, rebuild>>

\* the answer reaches the caller
Return ==
    /\ last.op # "none"
    /\ last.pc = "done"
    /\ last' = NoLast
    /\ UNCHANGED <<processed, lazy, collExists, entries, vector_store, call, rebuild>>

(***************************************************************************)
(* The access-policy functions, called on their own.                       *)
(***************************************************************************)
\* auth_service.check_permission(user_role, department, permission_level)
DoCheckPermission ==
    /\ Idle
    /\ \E user_role \in ROLE_INPUTS, department \in DEPT_INPUTS,
          permission_level \in LEVEL_INPUTS :
          call' = [NoCall EXCEPT !.fn = "check_permission", !.user_role = user_role,
                     !.department = department, !.permission_level = permission_level,
                     !.outcome = CheckPermissionLevel(user_role, department,
                                                      permission_level)]
    /\ UNCHANGED <<processed, lazy, collExists, entries, vector_store, last, rebuild>>

\* config.get_accessible_departments(user_role)
DoConfigGetAccessibleDepartments ==
    /\ Idle
    /\ \E user_role \in ROLE_INPUTS :
          call' = [NoCall EXCEPT !.fn = "config.get_accessible_departments",
                     !.user_role = user_role,
                     !.departments = ConfigGetAccessibleDepartments(user_role)]
    /\ UNCHANGED <<processed, lazy, collExists, entries, vector_store, last, rebuild>>

\* auth_service.get_accessible_departments(user_role)
DoAuthGetAccessibleDepartments ==
    /\ Idle
    /\ \E user_role \in ROLE_INPUTS :
          call' = [NoCall EXCEPT !.fn = "auth_service.get_accessible_departments",
                     !.user_role = user_role,
                     !.departments = AuthGetAccessibleDepartments(user_role)]
    /\ UNCHANGED <<processed, lazy, collExists, entries, vector_store, last, rebuild>>

PolicyReturn ==
    /\ call.fn # "none"
    /\ call' = NoCall
    /\ UNCHANGED <<processed, lazy, collExists, entries, vector_store, last, rebuild>>

NextPolicy ==
    \/ DoCheckPermission
    \/ DoConfigGetAccessibleDepartments
    \/ DoAuthGetAccessibleDepartments
    \/ PolicyReturn

SpecPolicy == Init /\ [][NextPolicy]_vars

(***************************************************************************)
(* initialize_vector_store on a background worker, one index call at a     *)
(* time, while the manager goes on serving search_documents and            *)
(* get_department_documents.  A read is one step; its answer is handed     *)
(* over before the worker's next step is looked at.                        *)
(***************************************************************************)
\* all_documents = process_all_departments(); `if not combined_documents`
RbProcess ==
    /\ rebuild.pc = "idle"
    /\ Free
    /\ \E disk \in DiskInputs :
          rebuild' = [pc |-> IF CombinedDocuments(disk) = << >>
                             THEN "returned" ELSE "processed",
                      disk |-> disk, before |-> Store, ok |-> FALSE]
    /\ UNCHANGED <<processed, lazy, collExists, entries, vector_store, last, call>>

\* add_documents: collection = self.create_collection(collection_name)
RbCreateCollection ==
    /\ rebuild.pc = "processed"
    /\ Free
    /\ SetStore(CreateCollection(Store))
    /\ rebuild' = [rebuild EXCEPT !.pc = "created"]
    /\ UNCHANGED <<processed, lazy, last, call>>

\* add_documents: collection.add(documents=texts, metadatas=metadatas, ids=ids)
RbAdd ==
    /\ rebuild.pc = "created"
    /\ Free
    /\ \E addOut \in OUTCOMES :
          IF addOut = "ok"
          THEN /\ entries' = CollectionAdd(entries, CombinedDocuments(rebuild.disk),
                                 DocIds(Store, CombinedDocuments(rebuild.disk)))
               /\ rebuild' = [rebuild EXCEPT !.pc = "added"]
          ELSE /\ entries' = entries
               /\ rebuild' = [rebuild EXCEPT !.pc = "returned"]
    /\ UNCHANGED <<processed, lazy, collExists, vector_store, last, call>>

\* self.vector_store = self._get_langchain_vector_store()
RbHandle ==
    /\ rebuild.pc = "added"
    /\ Free
    /\ \E handleOut \in OUTCOMES :
          /\ SetStore(GetLangchainVectorStore(Store, handleOut))
          /\ rebuild' = [rebuild EXCEPT !.pc = "returned", !.ok = (handleOut = "ok")]
    /\ UNCHANGED <<processed, lazy, last, call>>

\* initialize_vector_store returns
RbReturn ==
    /\ rebuild.pc = "returned"
    /\ Free
    /\ rebuild' = NoRebuild
    /\ UNCHANGED <<processed, lazy, collExists, entries, vector_store, last, call>>

NextConc ==
    \/ RbProcess
    \/ RbCreateCollection
    \/ RbAdd
    \/ RbHandle
    \/ RbReturn
    \/ DoSearchDocuments
    \/ DoGetDepartmentDocuments
    \/ Return

SpecConc == Init /\ [][NextConc]_vars

Next ==
    \/ DoNewManager
    \/ DoNewEngine
    \/ DoRebuildOnce
    \/ DoResetCollection
    \/ DoGetCollectionStats
    \/ DoSearchDocuments
    \/ DoGetDepartmentDocuments
    \/ DoQuery
    \/ DoGetDepartmentSummary
    \/ Return

Spec == Init /\ [][Next]_vars

(***************************************************************************)
(* The index under rebuilds alone, the second of two rebuilds in a row     *)
(* keeping the outcome of the first for comparison.                        *)
(***************************************************************************)
NextRebuild ==
    \/ DoNewManager
    \/ DoRebuild
    \/ DoResetCollection
    \/ Return

SpecRebuild == Init /\ [][NextRebuild]_vars

(***************************************************************************)
(* query and get_department_summary with the call of the language model as *)
(* a step of its own: the request waits in self.llm(messages) until the     *)
(* model answers or the call raises.  The constructor of the model client   *)
(* is given no timeout and nothing in the request watches a clock, so       *)
(* nothing but the answer of the call ends the wait.                        *)
(***************************************************************************)
\* query, up to `response = self.llm(messages)`
LvQueryCallsLlm ==
    /\ Idle
    /\ \E user_query \in QUERY_INPUTS, user_role \in ROLE_INPUTS :
       \E statsOut \in StatsOuts(Store) :
       \E disk \in InitDisks(Store, statsOut) : \E addOut \in AddOuts(disk) :
       \E handleOut \in HandleOuts(Store, disk, statsOut, addOut) :
       \E simOut \in SIM_OUTCOMES :
       \E e \in {EnsureIfUnset(Store, disk, statsOut, addOut, handleOut)} :
       \E f \in {SearchDocuments(e.store, user_query, user_role, 0, simOut)} :
          /\ simOut # "ok" => "similarity_search" \in f.calls
          /\ simOut = "ok_ties" =>
                f.results # SearchDocuments(e.store, user_query, user_role, 0,
                                            "ok").results
          /\ SetStore(e.store)
          /\ last' = [NoLast EXCEPT !.op = "query", !.pc = "llm", !.before = Store,
                                    !.query = user_query, !.user_role = user_role,
                                    !.disk = disk, !.sim = simOut,
                                    !.results = f.results,
                                    !.llm_context = FormatContext(f.results),
                                    !.calls = e.calls \cup f.calls \cup {"llm"},
                                    !.raised = e.raised \cup f.raised]
    /\ UNCHANGED <<processed, lazy, call, rebuild>>

\* get_department_summary, up to `response = self.llm(messages)`, or to its
\* return when it does not get that far
LvSummaryCallsLlm ==
    /\ Idle
    /\ \E department \in DEPT_INPUTS, user_role \in ROLE_INPUTS :
       \E statsOut \in (IF SummaryAllowed(user_role, department)
                        THEN StatsOuts(Store) ELSE {"ok"}) :
       \E disk \in (IF SummaryAllowed(user_role, department)
                    THEN InitDisks(Store, statsOut) ELSE {ZeroDisk}) :
       \E addOut \in AddOuts(disk) :
       \E handleOut \in (IF SummaryAllowed(user_role, department)
                         THEN HandleOuts(Store, disk, statsOut, addOut) ELSE {"ok"}) :
       \E simOut \in SIM_OUTCOMES :
       \E r \in {GetDepartmentSummary(Store, department, user_role, disk, statsOut, addOut,
                                     handleOut, simOut, "ok")} :
          /\ simOut # "ok" => "similarity_search" \in r.calls
          /\ simOut = "ok_ties" =>
                r.results # GetDepartmentSummary(Store, department, user_role, disk,
                                statsOut, addOut, handleOut, "ok", "ok").results
          /\ SetStore(r.store)
          /\ last' = [NoLast EXCEPT !.op = "summary", !.before = Store,
                          !.pc = IF "llm" \in r.calls THEN "llm" ELSE "done",
                          !.department = department, !.user_role = user_role,
                          !.disk = disk, !.sim = simOut, !.results = r.results,
                          !.answer = IF "llm" \in r.calls THEN NoAnswer ELSE r.answer,
                          !.llm_context = r.llm_context,
                          !.calls = r.calls, !.raised = r.raised]
    /\ UNCHANGED <<processed, lazy, call, rebuild>>

\* self.llm(messages) returns or raises, and the request builds its answer
LvLlmAnswers ==
    /\ last.pc = "llm"
    /\ \E genOut \in OUTCOMES :
       \E r \in {(IF last.op = "query"
                  THEN QueryAnswer([store |-> Store, calls |-> last.calls,
                                    raised |-> last.raised],
                                   [results |-> last.results, calls |-> {},
                                    raised |-> {}], genOut)
                  ELSE SummaryAnswer([store |-> Store, calls |-> last.calls,
                                      raised |-> last.raised],
                                     [results |-> last.results, calls |-> {},
                                      raised |-> {}], genOut))} :
          last' = [last EXCEPT !.pc = "done", !.answer = r.answer,
                               !.raised = r.raised]
    /\ UNCHANGED <<processed, lazy, collExists, entries, vector_store, call, rebuild>>

NextLive ==
    \/ LvQueryCallsLlm
    \/ LvSummaryCallsLlm
    \/ LvLlmAnswers
    \/ Return

\* the request goes on whenever it can; nothing makes the model answer
SpecLive == Init /\ [][NextLive]_vars /\ WF_vars(Return)

(***************************************************************************)
(* Properties.                                                             *)
(***************************************************************************)
\* the departments the permission table lets a role read
AccessibleSet(user_role) ==
    { d \in DEPT_INPUTS : Permission(user_role, d) \in {"read", "full"} }

\* the collection that holds exactly the given chunks, one entry per chunk
NewGeneration(documents) ==
    [ i \in 0..(Len(documents) - 1) |-> documents[i + 1] ]

HasDepartment(ents, department) ==
    \E i \in DOMAIN ents : ents[i].metadata.department = department

\* C1: whatever the index holds, no result (and no source) that
\* search_documents, get_department_documents, query or get_department_summary
\* hands to a role comes from a department on which the role's permission is
\* "none".
C1_NoResultFromDeniedDepartment ==
    last.op \in {"search", "department_documents", "query", "summary"} =>
        /\ \A i \in 1..Len(last.results) :
              Permission(last.user_role, last.results[i].metadata.department) # "none"
        /\ \A i \in 1..Len(last.answer.sources) :
              Permission(last.user_role, last.answer.sources[i].department) # "none"

\* C1 witness: role hr searched an index that holds an engineering entry and
\* got results.
C1_Witness ==
    /\ last.op = "search" /\ last.user_role = "hr"
    /\ last.results # << >>
    /\ HasDepartment(last.before.entries, "engineering")

\* C2: check_permission never raises and answers False for a role the
\* configuration does not name, a department the role's row does not name and
\* a permission level other than read and full; get_accessible_departments
\* answers the empty list for a role the configuration does not name.
C2_PermissionFailsClosed ==
    /\ call.fn = "check_permission" =>
          /\ call.outcome \in {"True", "False"}
          /\ ( \/ call.user_role \notin DOMAIN ROLES
               \/ call.department \notin DEPARTMENTS
               \/ call.permission_level \notin {"read", "full"} )
             => call.outcome = "False"
    /\ ( /\ call.fn \in {"config.get_accessible_departments",
                         "auth_service.get_accessible_departments"}
         /\ call.user_role \notin DOMAIN ROLES )
       => call.departments = << >>

\* C2 witness: c_level, who may read everything, asked for a level the check
\* does not know and was refused.
C2_Witness ==
    /\ call.fn = "check_permission" /\ call.user_role = "c_level"
    /\ call.department = "finance" /\ call.permission_level = "write"
    /\ call.outcome = "False"

\* C3: get_accessible_departments(R) lists exactly the departments on which
\* R's permission is read or full, each once; check_permission(R, D, "read")
\* is true exactly for those, and check_permission(R, D, "full") exactly for
\* the departments on which R's permission is full.
C3_AccessibleDepartmentsExact ==
    /\ call.fn \in {"config.get_accessible_departments",
                    "auth_service.get_accessible_departments"} =>
          /\ SeqRange(call.departments) = AccessibleSet(call.user_role)
          /\ Len(call.departments) = Cardinality(AccessibleSet(call.user_role))
    /\ (call.fn = "check_permission" /\ call.permission_level = "read") =>
          (call.outcome = "True" <=> call.department \in AccessibleSet(call.user_role))
    /\ (call.fn = "check_permission" /\ call.permission_level = "full") =>
          (call.outcome = "True" <=> Permission(call.user_role, call.department) = "full")

\* C3 witness: the list of role finance is asked for; finance has full, read
\* and none entries.
C3_Witness ==
    /\ call.fn = "config.get_accessible_departments" /\ call.user_role = "finance"
    /\ Len(call.departments) = 4

\* C4: search_documents for a role with no readable department returns the
\* empty list without calling the similarity search, whatever the query and
\* top_k.
C4_EmptyAccessNoSearch ==
    (last.op = "search" /\ AccessibleSet(last.user_role) = {}) =>
        (last.results = << >> /\ "similarity_search" \notin last.calls)

\* C4 witness: a role without access searched, with an explicit top_k, an
\* index whose handle was set and that held entries.
C4_Witness ==
    /\ last.op = "search" /\ AccessibleSet(last.user_role) = {}
    /\ last.top_k = 2
    /\ last.before.vs = "Chroma" /\ last.before.entries # NoEntries

\* C5, as claimed: query for a role with no readable department answers "no
\* access" with no sources and touches nothing: no statistics read, no
\* initialization, no search, no generation call.
C5_QueryShortCircuits ==
    (last.op = "query" /\ AccessibleSet(last.user_role) = {}) =>
        /\ last.answer.response = "denied"
        /\ last.answer.sources = << >> /\ last.answer.total_sources = 0
        /\ last.calls = {}

\* C6: get_department_summary for a department on which the role's permission
\* is "none" answers access-denied with no sources and source count 0, makes
\* no index, initialization or generation call and leaves the store as it was.
C6_SummaryDeniedFirst ==
    (last.op = "summary" /\ Permission(last.user_role, last.department) = "none") =>
        /\ last.answer.response = "denied"
        /\ last.answer.sources = << >> /\ last.answer.total_sources = 0
        /\ last.calls = {}
        /\ Store = last.before

\* C6 witness: employee asked for the finance summary while the handle was
\* unset and was denied.
C6_Witness ==
    /\ last.op = "summary" /\ last.user_role = "employee"
    /\ last.department = "finance" /\ last.before.vs = "None"
    /\ last.answer.response = "denied"

\* C7, as claimed: after a rebuild that reports success the collection holds
\* exactly the chunks of that rebuild, one entry per chunk.
C7_RebuildReplaces ==
    (last.op = "rebuild" /\ last.ok) =>
        /\ collExists
        /\ entries = NewGeneration(CombinedDocuments(last.disk))

\* C8, as claimed: after a rebuild that reports failure the collection is
\* what it was before the call.
C8_FailedRebuildChangesNothing ==
    (last.op = "rebuild" /\ ~last.ok) =>
        /\ collExists = last.before.exists
        /\ entries = last.before.entries

SameStats(a, b) ==
    /\ a.total_documents = b.total_documents
    /\ a.departments = b.departments

ReadOn(ents) ==
    IF last.op = "search"
    THEN SearchDocuments([exists |-> TRUE, entries |-> ents, vs |-> "Chroma"],
                         last.query, last.user_role, last.top_k, last.sim).results
    ELSE GetDepartmentDocuments([exists |-> TRUE, entries |-> ents, vs |-> "Chroma"],
                                last.department, last.user_role, last.sim).results

\* C10, as claimed: a search or department dump that runs while a rebuild is
\* in progress returns what it returns over the collection as it was when the
\* rebuild began, or over the collection of exactly the rebuild's chunks.
C10_ReadSeesOneGeneration ==
    ( /\ last.op \in {"search", "department_documents"}
      /\ rebuild.pc \in {"processed", "created", "added"}
      /\ "similarity_search" \in last.calls /\ last.raised = {} ) =>
        \/ last.results = ReadOn(rebuild.before.entries)
        \/ last.results = ReadOn(NewGeneration(CombinedDocuments(rebuild.disk)))

\* C11, as claimed: a query or a department summary leaves the entries of the
\* collection as it found them, whatever the store it starts from (the handle
\* may be unset).
C11_RequestsReadOnly ==
    last.op \in {"query", "summary"} => entries = last.before.entries

\* the position of a result's chunk within its document
SequenceIndex(result) == result.content.part

\* C12, as claimed: along the results of search_documents the relevance score
\* never increases, and of two neighbouring results with the same score the
\* second does not come earlier in its document than the first.
C12_SearchResultsOrdered ==
    last.op = "search" =>
        \A i \in 1..(Len(last.results) - 1) :
            /\ last.results[i].relevance_score >= last.results[i + 1].relevance_score
            /\ last.results[i].relevance_score = last.results[i + 1].relevance_score
                  => SequenceIndex(last.results[i]) <= SequenceIndex(last.results[i + 1])

\* the entries of the collection, before the call in `last`, of a department
EntriesOf(department) ==
    { i \in DOMAIN last.before.entries :
        last.before.entries[i].metadata.department = department }

ResultIsEntry(result, i) ==
    /\ result.content = last.before.entries[i].page_content
    /\ result.metadata = last.before.entries[i].metadata

\* C13, as claimed, on a manager whose handle is set and whose similarity
\* search answers: get_department_documents returns every entry of the
\* department, however many there are, to a role that may read it, and the
\* empty list to a role that may not.
C13_DepartmentDumpComplete ==
    ( /\ last.op = "department_documents"
      /\ last.before.vs = "Chroma" /\ last.raised = {} ) =>
        IF Permission(last.user_role, last.department) \in {"read", "full"}
        THEN /\ Len(last.results) = Cardinality(EntriesOf(last.department))
             /\ \A i \in EntriesOf(last.department) :
                   \E n \in 1..Len(last.results) : ResultIsEntry(last.results[n], i)
        ELSE last.results = << >>

\* C14, as claimed: get_collection_stats on a store without entries (no
\* collection, or an empty one) returns statistics with total_documents = 0
\* and no departments and no file types.
C14_StatsOfEmptyIndexAreZero ==
    (last.op = "stats" /\ last.before.entries = NoEntries) =>
        /\ last.stats.present
        /\ last.stats.total_documents = 0
        /\ last.stats.departments = {} /\ last.stats.file_types = {}

\* C15, as claimed: search_documents on a collection without entries returns
\* the empty list, and query for c_level on a collection without entries gives
\* the model the "No relevant documents found." context and answers with no
\* sources.
C15_EmptyIndexEmptyAnswer ==
    /\ (last.op = "search" /\ last.before.entries = NoEntries) => last.results = << >>
    /\ ( /\ last.op = "query" /\ last.user_role = "c_level"
         /\ last.before.entries = NoEntries ) =>
          /\ last.llm_context = [literal |-> NO_DOCUMENTS_MARKER, parts |-> << >>]
          /\ last.answer.sources = << >> /\ last.answer.total_sources = 0

\* C16: when the call of the language model raises in query or in
\* get_department_summary, the answer is the apology with no sources, source
\* count 0 and an empty context, whatever the retrieval had returned.
C16_GenerationFailureAnswer ==
    (last.op \in {"query", "summary"} /\ "llm" \in last.raised) =>
        /\ last.answer.response = "apology"
        /\ last.answer.sources = << >> /\ last.answer.total_sources = 0
        /\ last.answer.context_used = EMPTY_CONTEXT

\* C16 witness: the model call raised in a query whose search had returned
\* results.
C16_Witness ==
    /\ last.op = "query" /\ "llm" \in last.raised
    /\ last.results # << >>
    /\ last.answer.response = "apology"

\* C17, as claimed: a query whose similarity search raises answers with the
\* apology and no sources and does not call the language model.
C17_SearchFailureAnswer ==
    (last.op = "query" /\ "similarity_search" \in last.raised) =>
        /\ last.answer.response = "apology"
        /\ last.answer.sources = << >> /\ last.answer.total_sources = 0
        /\ "llm" \notin last.calls

\* C18: in an answer of query or get_department_summary, total_sources is the
\* length of sources; a generated answer has one source per result of the
\* retrieval, in the order of the results, with the result's department, file
\* name and relevance score, and its context is made of the same results in
\* the same order; a denied, empty or apology answer has no sources.
C18_SourcesFromResults ==
    last.op \in {"query", "summary"} =>
        /\ last.answer.total_sources = Len(last.answer.sources)
        /\ last.answer.response = "llm" =>
              /\ Len(last.answer.sources) = Len(last.results)
              /\ \A i \in 1..Len(last.results) :
                    /\ last.answer.sources[i].department =
                          last.results[i].metadata.department
                    /\ last.answer.sources[i].file_name =
                          last.results[i].metadata.file_name
                    /\ last.answer.sources[i].relevance_score =
                          last.results[i].relevance_score
              /\ last.results # << >> =>
                    /\ Len(last.answer.context_used.parts) = Len(last.results)
                    /\ \A i \in 1..Len(last.results) :
                          /\ last.answer.context_used.parts[i].content = last.results[i].content
                          /\ last.answer.context_used.parts[i].department =
                                last.results[i].metadata.department
                          /\ last.answer.context_used.parts[i].relevance =
                                last.results[i].relevance_score
        /\ last.answer.response # "llm" =>
              (last.answer.sources = << >> /\ last.answer.total_sources = 0)

\* C18 witness: a generated answer of a query over two results of different
\* departments.
C18_Witness ==
    /\ last.op = "query" /\ last.answer.response = "llm"
    /\ Len(last.results) = 2
    /\ last.results[1].metadata.department # last.results[2].metadata.department

Min(a, b) == IF a <= b THEN a ELSE b

C19_RequestsReturn ==
    (last.op \in {"query", "summary"}) ~> (last.op = "none")


(***************************************************************************)
(* C21: _initialize_vector_store on an index that already holds entries    *)
(* leaves the set of indexed entries unchanged and runs no ingestion,      *)
(* whether it runs in RAGEngine() or on the way of a query or a summary.   *)
(***************************************************************************)
Populated(s) == s.exists /\ DOMAIN s.entries # {}

C21_EnsureOnPopulatedIndexIsIdle ==
    (/\ last.op \in {"new_engine", "query", "summary"}
     /\ "get_collection_stats" \in last.calls
     /\ Populated(last.before))
    => /\ entries = last.before.entries
       /\ "process_all_departments" \notin last.calls
       /\ "collection.add" \notin last.calls

(***************************************************************************)
(* C22: whenever query or get_department_summary calls the language model, *)
(* the context in the prompt is not the empty text, and with no retrieved  *)
(* results it is the "No relevant documents found." marker.                *)
(***************************************************************************)
C22_GenerationNeverGetsEmptyContext ==
    (last.op \in {"query", "summary"} /\ "llm" \in last.calls)
    => /\ last.llm_context # EMPTY_CONTEXT
       /\ last.results = << >> =>
             last.llm_context = [literal |-> NO_DOCUMENTS_MARKER, parts |-> << >>]
       /\ last.results # << >> => last.llm_context.parts # << >>

C22_Witness ==
    /\ last.op = "query" /\ "llm" \in last.calls /\ last.results = << >>
    /\ last.llm_context.literal = NO_DOCUMENTS_MARKER
    /\ last.answer.response = "llm"

(***************************************************************************)
(* _format_context as a function of the result list alone.  The lists are  *)
(* drawn up to MaxResults results long, one more than the ranked search of *)
(* query returns and the kind of list get_department_summary passes on     *)
(* from its search with k=1000.                                            *)
(***************************************************************************)
MaxResults == 6

ResultInputs ==
    { [ content         |-> Chunk(d, 1).page_content,
        metadata        |-> Chunk(d, 1).metadata,
        relevance_score |-> Relevance("salary", Chunk(d, 1)) ] : d \in {"finance", "general"} }

ResultListInputs ==
    UNION { [1..n -> ResultInputs] : n \in 0..MaxResults }

InitContext ==
    /\ collExists = FALSE
    /\ entries = NoEntries
    /\ vector_store = "None"
    /\ \E rs \in ResultListInputs : last = [NoLast EXCEPT !.results = rs]
    /\ call = NoCall
    /\ rebuild = NoRebuild
    /\ processed = NoProcessed
    /\ lazy = NoLazy

\* context = self._format_context(search_results)
DoFormatContext ==
    /\ last.op = "none"
    /\ last' = [last EXCEPT !.op = "format_context",
                            !.llm_context = FormatContext(last.results)]
    /\ UNCHANGED <<processed, lazy, collExists, entries, vector_store, call, rebuild>>

NextContext == DoFormatContext \/ Return

SpecContext == InitContext /\ [][NextContext]_vars

\* the number of results a context text holds in full
ContextEntries(context) == Len(context.parts)

(***************************************************************************)
(* C23: the context _format_context assembles never exceeds a fixed        *)
(* maximum size, whatever the number of results: here the size of the      *)
(* TOP_K_RESULTS results that the ranked search of query is cut to, the    *)
(* one limit on the context that the configuration names.                  *)
(***************************************************************************)
C23_ContextBounded ==
    last.op = "format_context" => ContextEntries(last.llm_context) <= TOP_K_RESULTS

(***************************************************************************)
(* C24: whatever requests came before and whichever roles made them, the   *)
(* department filter of a search is the accessible-department set of the   *)
(* role of that request: a search that reaches the library returns the     *)
(* ranking of exactly the entries its own role may read.                   *)
(***************************************************************************)
SearchedEntries == IF last.op = "search" THEN last.before.entries ELSE entries

MaxFiles == 2
MaxParts == 2

\* the i-th entry of a listing, by kind
FileOfKind(kind, i) ==
    [ file_name |-> << i, kind.ext >>, ext |-> kind.ext, isfile |-> kind.isfile,
      load |-> kind.load, parts |-> kind.parts ]

FILE_KINDS ==
    { [ext |-> ".md",  isfile |-> TRUE,  load |-> "ok",   parts |-> MaxParts],  \* readable
      [ext |-> ".md",  isfile |-> TRUE,  load |-> "fail", parts |-> 0],         \* unreadable
      [ext |-> ".csv", isfile |-> TRUE,  load |-> "fail", parts |-> 0],         \* corrupt
      [ext |-> ".pdf", isfile |-> TRUE,  load |-> "ok",   parts |-> 1],         \* unsupported
      [ext |-> "",     isfile |-> FALSE, load |-> "fail", parts |-> 0] }        \* a subfolder

ListingInputs ==
    UNION { { [ i \in 1..n |-> FileOfKind(kinds[i], i) ] : kinds \in [1..n -> FILE_KINDS] } :
              n \in 0..MaxFiles }

FolderChoices ==
    { [exists |-> FALSE, files |-> << >>] }
    \cup { [exists |-> TRUE, files |-> l] : l \in ListingInputs }

\* finance and general hold any listing; engineering a text file and a
\* spreadsheet that load; marketing and hr have no folder
FolderInputs ==
    { [ d \in DEPARTMENTS |->
          IF d = "finance" THEN f
          ELSE IF d = "general" THEN g
          ELSE IF d = "engineering"
          THEN [ exists |-> TRUE,
                 files  |-> << FileOfKind([ext |-> ".txt", isfile |-> TRUE,
                                           load |-> "ok", parts |-> 1], 1),
                               FileOfKind([ext |-> ".csv", isfile |-> TRUE,
                                           load |-> "ok", parts |-> 1], 2) >> ]
          ELSE [exists |-> FALSE, files |-> << >>] ] :
        f \in FolderChoices, g \in FolderChoices }

InitProcessor ==
    /\ collExists = FALSE
    /\ entries = NoEntries
    /\ vector_store = "None"
    /\ last = NoLast
    /\ call = NoCall
    /\ rebuild = NoRebuild
    /\ \E folders \in FolderInputs : processed = [NoProcessed EXCEPT !.folders = folders]
    /\ lazy = NoLazy

\* process_department_data(department)
DoProcessDepartmentData ==
    /\ processed.fn = "none"
    /\ \E department \in DEPT_INPUTS :
       \E r \in {ProcessDepartmentFiles(processed.folders, department)} :
          processed' = [processed EXCEPT !.fn = "process_department_data",
                                         !.department = department,
                                         !.raised = r.raised,
                                         !.documents = r.documents]
    /\ UNCHANGED <<collExists, entries, vector_store, last, call, rebuild, lazy>>

\* process_all_departments()
DoProcessAllDepartments ==
    /\ processed.fn = "none"
    /\ \E r \in {ProcessAllFiles(processed.folders)} :
          processed' = [processed EXCEPT !.fn = "process_all_departments",
                                         !.raised = r.raised,
                                         !.all_documents = r.documents]
    /\ UNCHANGED <<collExists, entries, vector_store, last, call, rebuild, lazy>>

\* the chunks reach the caller
ProcessorReturn ==
    /\ processed.fn # "none"
    /\ processed' = [NoProcessed EXCEPT !.folders = processed.folders]
    /\ UNCHANGED <<collExists, entries, vector_store, last, call, rebuild, lazy>>

NextProcessor ==
    \/ DoProcessDepartmentData
    \/ DoProcessAllDepartments
    \/ ProcessorReturn

SpecProcessor == InitProcessor /\ [][NextProcessor]_vars

\* a file that can be ingested: a regular file of a supported type that loads
GoodFile(file) ==
    file.isfile /\ file.ext \in {".md", ".txt", ".csv"} /\ file.load = "ok"

\* the chunks of a list that come from the file
ChunksOf(documents, file) ==
    SelectSeq(documents, LAMBDA c : c.metadata.file_name = file.file_name)

\* the list holds every chunk of every good file of the folder, in the order
\* of the text, and no chunk of any other file
FolderIngested(documents, folder) ==
    \A i \in 1..Len(folder.files) :
        IF GoodFile(folder.files[i])
        THEN /\ Len(ChunksOf(documents, folder.files[i])) = folder.files[i].parts
             /\ \A j \in 1..folder.files[i].parts :
                   ChunksOf(documents, folder.files[i])[j].page_content
                       = [text |-> folder.files[i].file_name, part |-> j]
        ELSE ChunksOf(documents, folder.files[i]) = << >>

HasBadFile(folder) == \E i \in 1..Len(folder.files) : ~GoodFile(folder.files[i])

HasGoodFile(folder) == \E i \in 1..Len(folder.files) : GoodFile(folder.files[i])

(***************************************************************************)
(* C25: a file that cannot be read or parsed, or whose extension is not    *)
(* supported, contributes no chunk and stops nothing: no exception leaves  *)
(* process_department_data or process_all_departments, and the chunks of   *)
(* every other loadable supported file of the department and of every      *)
(* other department are produced.                                          *)
(***************************************************************************)
C25_BadFileIsSkipped ==
    /\ processed.fn = "process_department_data" =>
          /\ ~processed.raised
          /\ processed.department \in DEPARTMENTS =>
                FolderIngested(processed.documents,
                               processed.folders[processed.department])
    /\ processed.fn = "process_all_departments" =>
          /\ ~processed.raised
          /\ \A d \in DEPARTMENTS :
                FolderIngested(processed.all_documents[d], processed.folders[d])

\* C25 witness: process_all_departments over a finance folder that holds a
\* file that does not load and then a file that does, and a general folder
\* with an unsupported file: the chunks of the good finance file and of the
\* engineering files are there.
C25_Witness ==
    /\ processed.fn = "process_all_departments"
    /\ Len(processed.folders["finance"].files) = 2
    /\ processed.folders["finance"].files[1].load = "fail"
    /\ processed.folders["finance"].files[1].isfile
    /\ GoodFile(processed.folders["finance"].files[2])
    /\ \E i \in 1..Len(processed.folders["general"].files) :
          processed.folders["general"].files[i].ext = ".pdf"
    /\ Len(processed.all_documents["finance"]) = MaxParts
    /\ Len(processed.all_documents["engineering"]) = 2
    /\ processed.all_documents["general"] = << >>

\* the chunks a call of the document processor handed back, as one list
ProcessedChunks ==
    IF processed.fn = "process_department_data" THEN processed.documents
    ELSE IF processed.fn = "process_all_departments"
    THEN CombineFrom(processed.all_documents, 1)
    ELSE << >>

(***************************************************************************)
(* C26: every chunk the document processor produces carries a              *)
(* sequence_index in its metadata, and the sequence_index is strictly      *)
(* increasing along the chunks of one document.                            *)
(***************************************************************************)
C26_ChunksCarrySequenceIndex ==
    /\ \A i \in 1..Len(ProcessedChunks) :
          "sequence_index" \in DOMAIN ProcessedChunks[i].metadata
    /\ \A i, j \in 1..Len(ProcessedChunks) :
          (/\ i < j
           /\ ProcessedChunks[i].metadata.source = ProcessedChunks[j].metadata.source)
          => ProcessedChunks[i].metadata.sequence_index
                < ProcessedChunks[j].metadata.sequence_index

(***************************************************************************)
(* C27: for every role and department, check_permission(R, D, "read"), the *)
(* guard of get_department_documents and of get_department_summary, is     *)
(* true exactly when D is in the filter of the ranked search,              *)
(* config.get_accessible_departments(R); and that list is the list         *)
(* auth_service.get_accessible_departments(R) returns.                     *)
(***************************************************************************)
C27_DumpGuardIsSearchFilter ==
    /\ (call.fn = "check_permission" /\ call.permission_level = "read") =>
          /\ call.outcome \in {"True", "False"}
          /\ call.outcome = "True"
                <=> call.department
                       \in SearchFilter(ConfigGetAccessibleDepartments(call.user_role))
          /\ DepartmentDocumentsAllowed(call.user_role, call.department)
                <=> call.outcome = "True"
          /\ SummaryAllowed(call.user_role, call.department)
                <=> call.outcome = "True"
    /\ call.fn = "config.get_accessible_departments" =>
          call.departments = AuthGetAccessibleDepartments(call.user_role)
    /\ call.fn = "auth_service.get_accessible_departments" =>
          call.departments = ConfigGetAccessibleDepartments(call.user_role)

\* C27 witness: check_permission("finance", "hr", "read"), a department the
\* role may read and not write, answered True.
C27_Witness ==
    /\ call.fn = "check_permission" /\ call.permission_level = "read"
    /\ call.user_role = "finance" /\ call.department = "hr"
    /\ call.outcome = "True"
    /\ Permission("finance", "hr") = "read"

\* the configured department in whose folder the text is a file's text
FolderOfText(text) == CHOOSE d \in DEPARTMENTS : FILES[d].page_content = text

(***************************************************************************)
(* C28: every chunk process_department_data(D) produces is tagged with the *)
(* department D and ingestion stores the metadata as it is, so that at all *)
(* times the department of every entry of the index is the configured      *)
(* department whose folder held the entry's source file.                   *)
(***************************************************************************)
C28_DepartmentTagsTrustworthy ==
    /\ last.op = "rebuild" =>
          \A d \in DEPARTMENTS : \A i \in 1..last.disk[d] :
              ProcessDepartmentData(last.disk, d)[i].metadata.department = d
    /\ \A i \in DOMAIN entries :
          /\ entries[i].metadata.department \in DEPARTMENTS
          /\ entries[i].metadata.department = FolderOfText(entries[i].page_content.text)
          /\ entries[i].metadata.file_name
                = FILES[FolderOfText(entries[i].page_content.text)].file_name

\* C28 witness: a rebuild that succeeded left entries of the finance folder
\* and of the hr folder in the index.
C28_Witness ==
    /\ last.op = "rebuild" /\ last.ok
    /\ \E i, j \in DOMAIN entries :
          /\ entries[i].page_content.text = FILES["finance"].page_content
          /\ entries[i].metadata.department = "finance"
          /\ entries[j].page_content.text = FILES["hr"].page_content
          /\ entries[j].metadata.department = "hr"

(***************************************************************************)
(* Lazy initialization.  query and get_department_summary call             *)
(* _initialize_vector_store when they find the manager's handle unset.     *)
(* Here the requests of LAZY_WORKERS do so one index call at a time, in    *)
(* any interleaving and any number of times, over a disk that does not     *)
(* change, starting from a fresh persist directory.                        *)
(***************************************************************************)
InitLazy ==
    /\ collExists = FALSE
    /\ entries = NoEntries
    /\ vector_store = "None"
    /\ last = NoLast
    /\ call = NoCall
    /\ rebuild = NoRebuild
    /\ processed = NoProcessed
    /\ \E disk \in DiskInputs : lazy = [NoLazy EXCEPT !.disk = disk]

LazyAt(w, pc) == lazy' = [lazy EXCEPT !.pc[w] = pc]

\* `if not self.vector_store_manager.vector_store: self._initialize_vector_store()`
LzStart(w) ==
    /\ lazy.pc[w] = "idle"
    /\ vector_store = "None"
    /\ LazyAt(w, "stats")
    /\ UNCHANGED <<collExists, entries, vector_store, last, call, rebuild, processed>>

\* stats = get_collection_stats(); `if stats.get("total_documents", 0) == 0`
LzStats(w) ==
    /\ lazy.pc[w] = "stats"
    /\ \E statsOut \in (IF GetCollectionStats(Store).total_documents # 0
                        THEN OUTCOMES ELSE {"ok"}) :
          IF GetCollectionStatsOrFail(Store, statsOut).total_documents = 0
          THEN LazyAt(w, "process")
          ELSE LazyAt(w, "handle_if_unset")
    /\ UNCHANGED <<collExists, entries, vector_store, last, call, rebuild, processed>>

\* initialize_vector_store: process_all_departments(); `if not combined_documents`
LzProcess(w) ==
    /\ lazy.pc[w] = "process"
    /\ IF CombinedDocuments(lazy.disk) = << >>
       THEN LazyAt(w, "returned")
       ELSE LazyAt(w, "create")
    /\ UNCHANGED <<collExists, entries, vector_store, last, call, rebuild, processed>>

\* add_documents: collection = self.create_collection(collection_name)
LzCreateCollection(w) ==
    /\ lazy.pc[w] = "create"
    /\ SetStore(CreateCollection(Store))
    /\ LazyAt(w, "add")
    /\ UNCHANGED <<last, call, rebuild, processed>>

\* add_documents: collection.add(documents=texts, metadatas=metadatas, ids=ids)
LzAdd(w) ==
    /\ lazy.pc[w] = "add"
    /\ \E addOut \in OUTCOMES :
          IF addOut = "ok"
          THEN /\ entries' = CollectionAdd(entries, CombinedDocuments(lazy.disk),
                                 DocIds(Store, CombinedDocuments(lazy.disk)))
               /\ LazyAt(w, "handle")
          ELSE /\ entries' = entries
               /\ LazyAt(w, "returned")
    /\ UNCHANGED <<collExists, vector_store, last, call, rebuild, processed>>

\* initialize_vector_store: self.vector_store = self._get_langchain_vector_store()
LzHandle(w) ==
    /\ lazy.pc[w] = "handle"
    /\ \E handleOut \in OUTCOMES : SetStore(GetLangchainVectorStore(Store, handleOut))
    /\ LazyAt(w, "returned")
    /\ UNCHANGED <<last, call, rebuild, processed>>

\* _initialize_vector_store, the index already holding entries:
\* `if not vector_store: vector_store = self._get_langchain_vector_store()`
LzHandleIfUnset(w) ==
    /\ lazy.pc[w] = "handle_if_unset"
    /\ IF vector_store = "None"
       THEN \E handleOut \in OUTCOMES :
               SetStore(GetLangchainVectorStore(Store, handleOut))
       ELSE UNCHANGED <<collExists, entries, vector_store>>
    /\ LazyAt(w, "returned")
    /\ UNCHANGED <<last, call, rebuild, processed>>

\* _initialize_vector_store returns and the request goes on to its search
LzReturn(w) ==
    /\ lazy.pc[w] = "returned"
    /\ LazyAt(w, "idle")
    /\ UNCHANGED <<collExists, entries, vector_store, last, call, rebuild, processed>>

NextLazy ==
    \E w \in LAZY_WORKERS :
        \/ LzStart(w)
        \/ LzStats(w)
        \/ LzProcess(w)
        \/ LzCreateCollection(w)
        \/ LzAdd(w)
        \/ LzHandle(w)
        \/ LzHandleIfUnset(w)
        \/ LzReturn(w)

SpecLazy == InitLazy /\ [][NextLazy]_vars

\* the number of entries of the collection that hold the chunk
Copies(chunk) == Cardinality({ i \in DOMAIN entries : entries[i] = chunk })

(***************************************************************************)
(* C29: however the initializations that requests trigger while the handle *)
(* is unset interleave and repeat, the collection holds nothing or what a  *)
(* single initialization produces, every processed chunk exactly once; and *)
(* it holds that once an add of any of them has succeeded.                 *)
(***************************************************************************)
C29_LazyInitOnce ==
    /\ entries \in {NoEntries, NewGeneration(CombinedDocuments(lazy.disk))}
    /\ \A i \in 1..Len(CombinedDocuments(lazy.disk)) :
          Copies(CombinedDocuments(lazy.disk)[i]) <= 1
    /\ (\E w \in LAZY_WORKERS : lazy.pc[w] = "handle") =>
          \A i \in 1..Len(CombinedDocuments(lazy.disk)) :
              Copies(CombinedDocuments(lazy.disk)[i]) = 1

\* C29 witness: both requests found the handle unset and the index empty,
\* and both have added the chunks of the disk.
C29_Witness ==
    /\ \A w \in LAZY_WORKERS : lazy.pc[w] = "handle"
    /\ Len(CombinedDocuments(lazy.disk)) = MaxChunks
    /\ entries = NewGeneration(CombinedDocuments(lazy.disk))

=============================================================================
